---- MODULE Spec2Model ----
(***************************************************************************)
(* Identity reconciliation (POST /identify): the Contact table, the        *)
(* ContactRepository primitives and ContactService.identify, one store     *)
(* round trip per step.                                                    *)
(***************************************************************************)
EXTENDS Integers, Sequences, FiniteSets, TLC

\* ------------------------------------------------------------------ bounds
\* The number of Contact rows at which the histories stop inserting.
MaxContacts == 3

\* The largest number of calls that a concurrent history starts.
MaxCalls == 4
\* The largest number of Contact rows in a concurrent history.
MaxConcContacts == 2
\* The latest time that an update stamps: at this time of the store an update
\* falls in the millisecond of the last write.
MaxTime == 6

\* ------------------------------------------------------------ value domains
\* null / undefined of the request body and of the nullable columns.
NULL == "NULL"
\* null of the linkedId column (ids are autoincremented from 1).
NoId == 0
\* null of the deletedAt column (timestamps are counted from 1).
NullTime == 0

\* Well-formed e-mail addresses (z.string().email()), in the order in which
\* requests bring them in.
EmailOrder == <<"e1", "e2">>
Emails == {EmailOrder[i] : i \in 1..Len(EmailOrder)}
\* Non-empty phone numbers, in the order in which requests bring them in.
PhoneOrder == <<"p1", "p2">>
\* Phone numbers: z.string() accepts every string, the empty one included.
Phones == {PhoneOrder[i] : i \in 1..Len(PhoneOrder)} \cup {""}

\* The request handlers that may be in flight.
Procs == {1, 2}

\* JavaScript truthiness of a string | null | undefined value: `if (v)`.
Truthy(v) == v # NULL /\ v # ""

\* ------------------------------------------------------------- the schema
\* A row of the Contact table, as an insert leaves it: updatedAt starts as the
\* time of the insert.
Contact(id, email, phoneNumber, linkedId, linkPrecedence, createdAt) ==
    [id |-> id, email |-> email, phoneNumber |-> phoneNumber,
     linkedId |-> linkedId, linkPrecedence |-> linkPrecedence,
     createdAt |-> createdAt, updatedAt |-> createdAt, deletedAt |-> NullTime]

\* The absent result of findFirst (null).
NoContact == Contact(NoId, NULL, NULL, NoId, "primary", 0)

\* A validator without the refinement: both fields may be null.
identifySchema_noRefine(email, phoneNumber) ==
    /\ email \in Emails \cup {NULL}
    /\ phoneNumber \in Phones \cup {NULL}

\* The body accepted by the validator: email is null or a well-formed address,
\* phoneNumber is null or any string, and not both are null.
identifySchema(email, phoneNumber) ==
    /\ email \in Emails \cup {NULL}
    /\ phoneNumber \in Phones \cup {NULL}
    /\ (email # NULL \/ phoneNumber # NULL)

\* ----------------------------------------------------------- the repository
\* Postgres enum order of LinkPrecedence: 'primary' < 'secondary'.
PrecedenceRank(p) == IF p = "primary" THEN 0 ELSE 1

\* Row a may come before row b under ORDER BY createdAt ASC. The query has no
\* second key, so rows with equal createdAt may come in either order.
BeforeByCreatedAt(a, b) == a.createdAt <= b.createdAt

\* Row a may come before row b under ORDER BY linkPrecedence ASC, createdAt ASC.
BeforeByPrecedence(a, b) ==
    \/ PrecedenceRank(a.linkPrecedence) < PrecedenceRank(b.linkPrecedence)
    \/ /\ PrecedenceRank(a.linkPrecedence) = PrecedenceRank(b.linkPrecedence)
       /\ BeforeByCreatedAt(a, b)

\* The results that a query over the rows S may return: every list of the
\* rows of S in ascending order, by (linkPrecedence, createdAt) when
\* byPrecedence, by createdAt otherwise. Rows with equal keys come in any
\* order, so there is one list for every order of the tied rows.
RECURSIVE OrderBy(_, _)
OrderBy(S, byPrecedence) ==
    IF S = {} THEN {<<>>}
    ELSE LET least == {a \in S : \A b \in S :
                         IF byPrecedence THEN BeforeByPrecedence(a, b)
                                         ELSE BeforeByCreatedAt(a, b)}
         IN  UNION {{<<m>> \o rest : rest \in OrderBy(S \ {m}, byPrecedence)} :
                    m \in least}

Rows(cs) == {cs[i] : i \in 1..Len(cs)}

\* The possible results of the lookup (one list when no createdAt is tied).
findByEmailOrPhone(cs, email, phoneNumber) ==
    IF ~Truthy(email) /\ ~Truthy(phoneNumber) THEN {<<>>}
    ELSE OrderBy({c \in Rows(cs) :
                    /\ c.deletedAt = NullTime
                    /\ \/ Truthy(email) /\ c.email = email
                       \/ Truthy(phoneNumber) /\ c.phoneNumber = phoneNumber},
                 FALSE)

findById(cs, id) ==
    IF \E c \in Rows(cs) : c.id = id /\ c.deletedAt = NullTime
    THEN CHOOSE c \in Rows(cs) : c.id = id /\ c.deletedAt = NullTime
    ELSE NoContact

\* A cluster query that returns the row with the given id only.
findAllInCluster_rootOnly(cs, primaryId) ==
    OrderBy({c \in Rows(cs) : c.deletedAt = NullTime /\ c.id = primaryId}, TRUE)

\* A cluster query ordered by createdAt alone.
findAllInCluster_byCreatedAt(cs, primaryId) ==
    OrderBy({c \in Rows(cs) :
               /\ c.deletedAt = NullTime
               /\ (c.id = primaryId \/ c.linkedId = primaryId)},
            FALSE)

\* The possible results of the cluster query.
findAllInCluster(cs, primaryId) ==
    OrderBy({c \in Rows(cs) :
               /\ c.deletedAt = NullTime
               /\ (c.id = primaryId \/ c.linkedId = primaryId)},
            TRUE)

\* The times that the writes so far have stamped on the rows of table cs.
Stamps(cs) ==
    {0} \cup UNION {{cs[i].createdAt, cs[i].updatedAt, cs[i].deletedAt} : i \in 1..Len(cs)}

\* The time of the last write to table cs: the latest time stamped on a row.
LastTime(cs) == CHOOSE t \in Stamps(cs) : \A u \in Stamps(cs) : u <= t

\* INSERT: the id is the next of the sequence, createdAt is the insertion time t.
\* An insert that ignores the precedence and the link it is given.
createContact_primary(cs, email, phoneNumber, linkedId, linkPrecedence, t) ==
    Append(cs, Contact(Len(cs) + 1, email, phoneNumber, NoId, "primary", t))

createContact(cs, email, phoneNumber, linkedId, linkPrecedence, t) ==
    Append(cs, Contact(Len(cs) + 1, email, phoneNumber, linkedId, linkPrecedence, t))

\* A demotion that forgets to set linkedId.
demoteContact_keepLink(cs, id, newPrimaryId, t) ==
    [i \in 1..Len(cs) |->
        IF cs[i].id = id
        THEN [cs[i] EXCEPT !.linkPrecedence = "secondary", !.updatedAt = t]
        ELSE cs[i]]

\* A demotion that also clears the phone of the row.
demoteContact_wipe(cs, id, newPrimaryId, t) ==
    [i \in 1..Len(cs) |->
        IF cs[i].id = id
        THEN [cs[i] EXCEPT !.linkPrecedence = "secondary", !.linkedId = newPrimaryId,
                           !.phoneNumber = NULL, !.updatedAt = t]
        ELSE cs[i]]

\* A demotion that links the row to itself.
demoteContact_selfLink(cs, id, newPrimaryId, t) ==
    [i \in 1..Len(cs) |->
        IF cs[i].id = id
        THEN [cs[i] EXCEPT !.linkPrecedence = "secondary", !.linkedId = id,
                           !.updatedAt = t]
        ELSE cs[i]]

\* A demotion that stamps the new root as well.
demoteContact_stampRoot(cs, id, newPrimaryId, t) ==
    [i \in 1..Len(cs) |->
        IF cs[i].id = id
        THEN [cs[i] EXCEPT !.linkPrecedence = "secondary", !.linkedId = newPrimaryId,
                           !.updatedAt = t]
        ELSE IF cs[i].id = newPrimaryId
        THEN [cs[i] EXCEPT !.updatedAt = t]
        ELSE cs[i]]

demoteContact(cs, id, newPrimaryId, t) ==
    [i \in 1..Len(cs) |->
        IF cs[i].id = id
        THEN [cs[i] EXCEPT !.linkPrecedence = "secondary", !.linkedId = newPrimaryId,
                           !.updatedAt = t]
        ELSE cs[i]]

\* A merge that leaves the secondaries of the demoted root where they are.
reattachSecondaries_none(cs, oldPrimaryId, newPrimaryId, t) == cs

\* A reattach with its two ids exchanged.
reattachSecondaries_swapped(cs, oldPrimaryId, newPrimaryId, t) ==
    [i \in 1..Len(cs) |->
        IF cs[i].linkedId = newPrimaryId
        THEN [cs[i] EXCEPT !.linkedId = oldPrimaryId, !.updatedAt = t]
        ELSE cs[i]]

\* A reattach that unlinks the rows of the old root and makes them roots.
reattachSecondaries_release(cs, oldPrimaryId, newPrimaryId, t) ==
    [i \in 1..Len(cs) |->
        IF cs[i].linkedId = oldPrimaryId
        THEN [cs[i] EXCEPT !.linkedId = NoId, !.linkPrecedence = "primary",
                           !.updatedAt = t]
        ELSE cs[i]]

\* A reattach that moves every linked row, whatever it is linked to.
reattachSecondaries_all(cs, oldPrimaryId, newPrimaryId, t) ==
    [i \in 1..Len(cs) |->
        IF cs[i].linkedId # NoId
        THEN [cs[i] EXCEPT !.linkedId = newPrimaryId, !.updatedAt = t]
        ELSE cs[i]]

reattachSecondaries(cs, oldPrimaryId, newPrimaryId, t) ==
    [i \in 1..Len(cs) |->
        IF cs[i].linkedId = oldPrimaryId
        THEN [cs[i] EXCEPT !.linkedId = newPrimaryId, !.updatedAt = t]
        ELSE cs[i]]

\* The time of an insertion: the millisecond of the last write, or a later one
\* (two rows may get the same createdAt).
InsertTimes(cs) == IF cs = <<>> THEN {1} ELSE {LastTime(cs), LastTime(cs) + 1}

\* The time of an update, which @updatedAt stamps on every row the update
\* writes: the millisecond of the last write, or a later one.
UpdateTimes(cs) ==
    {LastTime(cs)} \cup (IF LastTime(cs) < MaxTime THEN {LastTime(cs) + 1} ELSE {})

\* -------------------------------------------------------------- the service
\* A resolution that takes every candidate for its own root.
_resolvePrimary_self(cs, contact) == contact

\* A resolution without the guard for a missing parent.
_resolvePrimary_noGuard(cs, contact) ==
    IF contact.linkPrecedence = "primary" THEN contact
    ELSE findById(cs, contact.linkedId)

\* _resolvePrimary given the parent row that findById returned.
_resolvePrimary(cs, contact) ==
    IF contact.linkPrecedence = "primary" THEN contact
    ELSE LET parent == findById(cs, contact.linkedId)
         IN  IF parent = NoContact THEN contact ELSE parent

\* primaryMap.set(root.id, root): a Map keeps the position of a key it has.
MapSet(map, root) ==
    IF \E i \in 1..Len(map) : map[i].id = root.id
    THEN [i \in 1..Len(map) |-> IF map[i].id = root.id THEN root ELSE map[i]]
    ELSE Append(map, root)

\* Array.prototype.sort with (a, b) => a.createdAt - b.createdAt: stable.
\* The comparator with its operands swapped: newest first.
InsertByCreatedAt_desc(x, s) ==
    LET n == Cardinality({i \in 1..Len(s) : s[i].createdAt >= x.createdAt})
    IN  SubSeq(s, 1, n) \o <<x>> \o SubSeq(s, n + 1, Len(s))

InsertByCreatedAt(x, s) ==
    LET n == Cardinality({i \in 1..Len(s) : s[i].createdAt <= x.createdAt})
    IN  SubSeq(s, 1, n) \o <<x>> \o SubSeq(s, n + 1, Len(s))

\* The roots left in the order in which they were resolved.
sortByCreatedAt_asResolved(s) == s

RECURSIVE sortByCreatedAt(_)
sortByCreatedAt(s) ==
    IF s = <<>> THEN <<>>
    ELSE InsertByCreatedAt(s[Len(s)], sortByCreatedAt(SubSeq(s, 1, Len(s) - 1)))

\* _isNewInfo: each field is looked for on its own, on any row of the cluster.
_isNewInfo(email, phoneNumber, clusterContacts) ==
    LET emailExists == \E i \in 1..Len(clusterContacts) :
                          Truthy(email) /\ clusterContacts[i].email = email
        phoneExists == \E i \in 1..Len(clusterContacts) :
                          Truthy(phoneNumber) /\ clusterContacts[i].phoneNumber = phoneNumber
        emailIsNew  == Truthy(email) /\ ~emailExists
        phoneIsNew  == Truthy(phoneNumber) /\ ~phoneExists
    IN  emailIsNew \/ phoneIsNew

RECURSIVE deduplicateFrom(_, _)
deduplicateFrom(values, seen) ==
    IF values = <<>> THEN <<>>
    ELSE LET v == Head(values)
         IN  IF ~Truthy(v) \/ v \in seen
             THEN deduplicateFrom(Tail(values), seen)
             ELSE <<v>> \o deduplicateFrom(Tail(values), seen \cup {v})

_deduplicate(values) == deduplicateFrom(values, {})

\* A response that lists the email and the phone of the primary only.
_buildResponse_primaryOnly(all, primaryId) ==
    LET IsPrimary(c)   == c.id = primaryId
        IsSecondary(c) == c.id # primaryId
        primary     == SelectSeq(all, IsPrimary)[1]
        secondaries == SelectSeq(all, IsSecondary)
    IN  [primaryContatctId   |-> primaryId,
         emails              |-> _deduplicate(<<primary.email>>),
         phoneNumbers        |-> _deduplicate(<<primary.phoneNumber>>),
         secondaryContactIds |-> [i \in 1..Len(secondaries) |-> secondaries[i].id]]

\* _buildResponse on the rows `all` that findAllInCluster(primaryId) returned.
_buildResponse(all, primaryId) ==
    LET IsPrimary(c)   == c.id = primaryId
        IsSecondary(c) == c.id # primaryId
        primary     == SelectSeq(all, IsPrimary)[1]
        secondaries == SelectSeq(all, IsSecondary)
    IN  [primaryContatctId   |-> primaryId,
         emails              |-> _deduplicate(<<primary.email>> \o
                                   [i \in 1..Len(secondaries) |-> secondaries[i].email]),
         phoneNumbers        |-> _deduplicate(<<primary.phoneNumber>> \o
                                   [i \in 1..Len(secondaries) |-> secondaries[i].phoneNumber]),
         secondaryContactIds |-> [i \in 1..Len(secondaries) |-> secondaries[i].id]]

\* ------------------------------------------------------------------- state
VARIABLES
    contacts,     \* the Contact table: the sequence of rows, row i has id i
    pc,           \* pc[p]: where handler p stands in identify
    req,          \* req[p]: the (email, phoneNumber) of the call
    matched,      \* matched[p]: the rows the candidate lookup returned
    idx,          \* idx[p]: the next element of matched to resolve
    primaryMap,   \* primaryMap[p]: the resolved roots, in Map insertion order
    primaries,    \* primaries[p]: the roots sorted by createdAt
    other,        \* other[p]: the index in primaries of the root being merged
    target,       \* target[p]: the id the response is built for
    response,     \* response[p]: the ConsolidatedContact returned
    res,          \* res[p]: the status and the error of the HTTP reply sent
    pre,          \* pre[p]: the table when the call started (history)
    log,          \* log[p]: the writes the call has issued, in order (history)
    first,        \* the call that is being repeated, if one is (history)
    calls         \* the number of calls that have started (concurrent histories)

locals == <<pc, req, matched, idx, primaryMap, primaries, other, target, response, res,
            pre, log>>
vars == <<contacts, pc, req, matched, idx, primaryMap, primaries, other, target,
          response, res, pre, log, first, calls>>

NoRequest == [email |-> NULL, phoneNumber |-> NULL]
NoResponse == [primaryContatctId |-> NoId, emails |-> <<>>, phoneNumbers |-> <<>>,
               secondaryContactIds |-> <<>>]
\* No reply sent yet, and the replies of the controller and of the global
\* error handler.
NoReply == [status |-> 0, error |-> ""]
Reply(status, error) == [status |-> status, error |-> error]

NoCall == [active |-> FALSE, req |-> NoRequest, response |-> NoResponse]

\* An entry of log: a write and its arguments.
Write(op, id, to) == [op |-> op, id |-> id, to |-> to]

Init ==
    /\ contacts = <<>>
    /\ pc = [p \in Procs |-> "idle"]
    /\ req = [p \in Procs |-> NoRequest]
    /\ matched = [p \in Procs |-> <<>>]
    /\ idx = [p \in Procs |-> 0]
    /\ primaryMap = [p \in Procs |-> <<>>]
    /\ primaries = [p \in Procs |-> <<>>]
    /\ other = [p \in Procs |-> 0]
    /\ target = [p \in Procs |-> NoId]
    /\ response = [p \in Procs |-> NoResponse]
    /\ res = [p \in Procs |-> NoReply]
    /\ pre = [p \in Procs |-> <<>>]
    /\ log = [p \in Procs |-> <<>>]
    /\ first = NoCall
    /\ calls = 0

\* ------------------------------------------------------------------ inputs
\* The values of a column or request field that are in the table or in a
\* request in flight.
Seen(field) ==
    {contacts[i][field] : i \in 1..Len(contacts)} \cup {req[p][field] : p \in Procs}

\* The code only compares e-mails and non-empty phones for equality, so a
\* request brings in new values in a fixed order: a value is offered once all
\* the values before it have been seen.
Offered(order, seen) ==
    {order[i] : i \in {k \in 1..Len(order) : \A j \in 1..(k - 1) : order[j] \in seen}}

RequestEmails == Offered(EmailOrder, Seen("email")) \cup {NULL}
RequestPhones == Offered(PhoneOrder, Seen("phoneNumber")) \cup {"", NULL}

\* ----------------------------------------------------------------- actions
\* identifyController passes a valid body to ContactService.identify, whose
\* STEP 1 is the candidate lookup.
Identify(p, email, phoneNumber) ==
    /\ pc[p] = "idle"
    /\ identifySchema(email, phoneNumber)
    /\ first.active => first.req = [email |-> email, phoneNumber |-> phoneNumber]
    /\ \E found \in findByEmailOrPhone(contacts, email, phoneNumber) :
           /\ matched' = [matched EXCEPT ![p] = found]
           /\ pc' = [pc EXCEPT ![p] = IF Len(found) = 0 THEN "create_primary" ELSE "resolve"]
    /\ req' = [req EXCEPT ![p] = [email |-> email, phoneNumber |-> phoneNumber]]
    /\ idx' = [idx EXCEPT ![p] = 1]
    /\ pre' = [pre EXCEPT ![p] = contacts]
    /\ log' = [log EXCEPT ![p] = <<>>]
    /\ UNCHANGED <<contacts, primaryMap, primaries, other, target, response, res, first>>

\* STEP 2: no match, a brand-new primary contact.
CreatePrimary(p) ==
    /\ pc[p] = "create_primary"
    /\ Len(contacts) < MaxContacts
    /\ \E t \in InsertTimes(contacts) :
          contacts' = createContact(contacts, req[p].email, req[p].phoneNumber,
                                    NoId, "primary", t)
    /\ target' = [target EXCEPT ![p] = Len(contacts) + 1]
    /\ log' = [log EXCEPT ![p] = Append(@, Write("create", Len(contacts) + 1, NoId))]
    /\ pc' = [pc EXCEPT ![p] = "respond"]
    /\ UNCHANGED <<req, matched, idx, primaryMap, primaries, other, response, res, pre,
                   first, calls>>

\* STEP 3: one turn of the loop over matched; after the last one the roots are
\* sorted and the oldest is chosen.
ResolveNext(p) ==
    /\ pc[p] = "resolve"
    /\ LET root == _resolvePrimary(contacts, matched[p][idx[p]])
           map  == MapSet(primaryMap[p], root)
           last == idx[p] = Len(matched[p])
           srt  == sortByCreatedAt(map)
       IN  /\ primaryMap' = [primaryMap EXCEPT ![p] = map]
           /\ idx' = [idx EXCEPT ![p] = @ + 1]
           /\ primaries' = [primaries EXCEPT ![p] = IF last THEN srt ELSE @]
           /\ target' = [target EXCEPT ![p] = IF last THEN srt[1].id ELSE @]
           /\ other' = [other EXCEPT ![p] = IF last THEN 2 ELSE @]
           /\ pc' = [pc EXCEPT ![p] = IF ~last THEN "resolve"
                                      ELSE IF Len(srt) > 1 THEN "reattach" ELSE "check"]
    /\ UNCHANGED <<contacts, req, matched, response, res, pre, log, first, calls>>

\* STEP 4 (1): re-point the secondaries of primaries[other] to the oldest primary.
Reattach(p) ==
    /\ pc[p] = "reattach"
    /\ \E t \in UpdateTimes(contacts) :
          contacts' = reattachSecondaries(contacts, primaries[p][other[p]].id,
                                          primaries[p][1].id, t)
    /\ log' = [log EXCEPT ![p] =
                 Append(@, Write("reattach", primaries[p][other[p]].id, primaries[p][1].id))]
    /\ pc' = [pc EXCEPT ![p] = "demote"]
    /\ UNCHANGED <<req, matched, idx, primaryMap, primaries, other, target, response, res,
                   pre, first, calls>>

\* STEP 4 (2): demote primaries[other] itself, then go on with the next root.
Demote(p) ==
    /\ pc[p] = "demote"
    /\ \E t \in UpdateTimes(contacts) :
          contacts' = demoteContact(contacts, primaries[p][other[p]].id,
                                    primaries[p][1].id, t)
    /\ log' = [log EXCEPT ![p] =
                 Append(@, Write("demote", primaries[p][other[p]].id, primaries[p][1].id))]
    /\ other' = [other EXCEPT ![p] = @ + 1]
    /\ pc' = [pc EXCEPT ![p] = IF other[p] < Len(primaries[p]) THEN "reattach" ELSE "check"]
    /\ UNCHANGED <<req, matched, idx, primaryMap, primaries, target, response, res, pre,
                   first, calls>>

\* STEP 5, the read: fetch the cluster and decide whether the request is new.
CheckNewInfo(p) ==
    /\ pc[p] = "check"
    /\ \E clusterContacts \in findAllInCluster(contacts, target[p]) :
           pc' = [pc EXCEPT ![p] =
                    IF _isNewInfo(req[p].email, req[p].phoneNumber, clusterContacts)
                    THEN "create_secondary" ELSE "respond"]
    /\ UNCHANGED <<contacts, req, matched, idx, primaryMap, primaries, other, target,
                   response, res, pre, log, first, calls>>

\* STEP 5, the write: the new secondary contact.
CreateSecondary(p) ==
    /\ pc[p] = "create_secondary"
    /\ Len(contacts) < MaxContacts
    /\ \E t \in InsertTimes(contacts) :
          contacts' = createContact(contacts, req[p].email, req[p].phoneNumber,
                                    target[p], "secondary", t)
    /\ log' = [log EXCEPT ![p] = Append(@, Write("create", Len(contacts) + 1, target[p]))]
    /\ pc' = [pc EXCEPT ![p] = "respond"]
    /\ UNCHANGED <<req, matched, idx, primaryMap, primaries, other, target, response, res,
                   pre, first, calls>>

\* STEP 6 (and the end of STEP 2): _buildResponse re-fetches the cluster, and
\* the controller sends it with status 200.
BuildResponse(p) ==
    /\ pc[p] = "respond"
    /\ \E all \in findAllInCluster(contacts, target[p]) :
           response' = [response EXCEPT ![p] = _buildResponse(all, target[p])]
    /\ res' = [res EXCEPT ![p] = Reply(200, "")]
    /\ pc' = [pc EXCEPT ![p] = "done"]
    /\ UNCHANGED <<contacts, req, matched, idx, primaryMap, primaries, other, target,
                   pre, log, first, calls>>

\* The reply is out and the handler is free again. When repeat, the next call
\* is the same request once more.
Return(p, repeat) ==
    /\ pc[p] \in {"done", "rejected", "failed", "unparsed"}
    /\ first' = IF repeat /\ ~first.active /\ pc[p] = "done"
                THEN [active |-> TRUE, req |-> req[p], response |-> response[p]]
                ELSE NoCall
    /\ pc' = [pc EXCEPT ![p] = "idle"]
    /\ req' = [req EXCEPT ![p] = NoRequest]
    /\ matched' = [matched EXCEPT ![p] = <<>>]
    /\ idx' = [idx EXCEPT ![p] = 0]
    /\ primaryMap' = [primaryMap EXCEPT ![p] = <<>>]
    /\ primaries' = [primaries EXCEPT ![p] = <<>>]
    /\ other' = [other EXCEPT ![p] = 0]
    /\ target' = [target EXCEPT ![p] = NoId]
    /\ response' = [response EXCEPT ![p] = NoResponse]
    /\ res' = [res EXCEPT ![p] = NoReply]
    /\ pre' = [pre EXCEPT ![p] = <<>>]
    /\ log' = [log EXCEPT ![p] = <<>>]
    /\ UNCHANGED <<contacts, calls>>

\* ------------------------------------------------------------- HTTP layer
\* The message of the first issue of a body that fails identifySchema.
firstIssue(email, phoneNumber) ==
    IF email \notin Emails \cup {NULL}
    THEN "Invalid email format"
    ELSE "At least one of email or phoneNumber must be provided"

\* identifyController answers 400 to a body that fails the validator and
\* returns without calling ContactService.identify.
Reject(p, email, phoneNumber) ==
    /\ pc[p] = "idle"
    /\ ~identifySchema(email, phoneNumber)
    /\ res' = [res EXCEPT ![p] = Reply(400, firstIssue(email, phoneNumber))]
    /\ req' = [req EXCEPT ![p] = [email |-> email, phoneNumber |-> phoneNumber]]
    /\ pre' = [pre EXCEPT ![p] = contacts]
    /\ pc' = [pc EXCEPT ![p] = "rejected"]
    /\ UNCHANGED <<contacts, matched, idx, primaryMap, primaries, other, target, response,
                   log, first, calls>>

\* A reply that reports success.
errorHandler_ok == Reply(200, "")

\* The global error handler of the application: every error passed to next
\* is answered the same way.
errorHandler == Reply(500, "Internal server error")

\* express.json() cannot parse the body: its error goes to the global error
\* handler and the route is not entered.
Malformed(p) ==
    /\ pc[p] = "idle"
    /\ res' = [res EXCEPT ![p] = errorHandler]
    /\ pre' = [pre EXCEPT ![p] = contacts]
    /\ pc' = [pc EXCEPT ![p] = "unparsed"]
    /\ UNCHANGED <<contacts, req, matched, idx, primaryMap, primaries, other, target,
                   response, log, first, calls>>

\* The candidate lookup of STEP 1 rejects (it queries the store only when a
\* field is truthy): identify throws, the controller passes the error to next.
FailLookup(p, email, phoneNumber) ==
    /\ pc[p] = "idle"
    /\ identifySchema(email, phoneNumber)
    /\ Truthy(email) \/ Truthy(phoneNumber)
    /\ res' = [res EXCEPT ![p] = errorHandler]
    /\ req' = [req EXCEPT ![p] = [email |-> email, phoneNumber |-> phoneNumber]]
    /\ pre' = [pre EXCEPT ![p] = contacts]
    /\ pc' = [pc EXCEPT ![p] = "failed"]
    /\ UNCHANGED <<contacts, matched, idx, primaryMap, primaries, other, target, response,
                   log, first, calls>>

\* The call is about to issue a store operation (the loop of STEP 3 issues
\* findById for a secondary candidate only).
StoreOpPending(p) ==
    \/ pc[p] \in {"create_primary", "reattach", "demote", "check", "create_secondary",
                  "respond"}
    \/ pc[p] = "resolve" /\ matched[p][idx[p]].linkPrecedence = "secondary"

\* The pending store operation rejects and changes nothing: identify throws
\* at that await, the controller passes the error to next.
Fail(p) ==
    /\ StoreOpPending(p)
    /\ res' = [res EXCEPT ![p] = errorHandler]
    /\ pc' = [pc EXCEPT ![p] = "failed"]
    /\ UNCHANGED <<contacts, req, matched, idx, primaryMap, primaries, other, target,
                   response, pre, log, first, calls>>

\* ------------------------------------------------------------ specification
\* Sequential histories: one handler, one call at a time.
Next ==
    \/ \E email \in RequestEmails, phoneNumber \in RequestPhones :
          Identify(1, email, phoneNumber) /\ UNCHANGED calls
    \/ CreatePrimary(1)
    \/ ResolveNext(1)
    \/ Reattach(1)
    \/ Demote(1)
    \/ CheckNewInfo(1)
    \/ CreateSecondary(1)
    \/ BuildResponse(1)
    \/ \E repeat \in BOOLEAN : Return(1, repeat)

Spec == Init /\ [][Next]_vars

\* Sequential histories with the HTTP layer around identify: bodies that fail
\* the validator or the JSON parser, and store operations that reject.
\* "bad" is a string that is not a well-formed e-mail address.
NextHttp ==
    \/ \E email \in RequestEmails, phoneNumber \in RequestPhones :
          Identify(1, email, phoneNumber) /\ UNCHANGED calls
    \/ \E email \in RequestEmails \cup {"bad"}, phoneNumber \in RequestPhones :
          Reject(1, email, phoneNumber)
    \/ Malformed(1)
    \/ \E email \in RequestEmails, phoneNumber \in RequestPhones :
          FailLookup(1, email, phoneNumber)
    \/ Fail(1)
    \/ CreatePrimary(1)
    \/ ResolveNext(1)
    \/ Reattach(1)
    \/ Demote(1)
    \/ CheckNewInfo(1)
    \/ CreateSecondary(1)
    \/ BuildResponse(1)
    \/ Return(1, FALSE)

SpecHttp == Init /\ [][NextHttp]_vars

\* Concurrent histories: the handlers run identify at the same time and their
\* store operations interleave in any order (the code opens no transaction).
\* A request with any valid body may arrive at a free handler at any time;
\* a history starts MaxCalls calls at most and its table holds
\* MaxConcContacts rows at most.
NextConc ==
    \E p \in Procs :
        \/ /\ calls < MaxCalls
           /\ calls' = calls + 1
           /\ \E email \in RequestEmails, phoneNumber \in RequestPhones :
                 Identify(p, email, phoneNumber)
        \/ CreatePrimary(p) /\ Len(contacts) < MaxConcContacts
        \/ ResolveNext(p)
        \/ Reattach(p)
        \/ Demote(p)
        \/ CheckNewInfo(p)
        \/ CreateSecondary(p) /\ Len(contacts) < MaxConcContacts
        \/ BuildResponse(p)
        \/ Return(p, FALSE)

SpecConc == Init /\ [][NextConc]_vars

\* Stores with a dangling link: identify built a cluster of a PRIMARY and a
\* SECONDARY, and the PRIMARY has since been soft-deleted from outside (the
\* code never sets deletedAt, but every finder skips rows that have it set).
DanglingStores ==
    {<<[Contact(1, "e1", "p1", NoId, "primary", 1) EXCEPT !.deletedAt = 2, !.updatedAt = 2],
       Contact(2, v[1], v[2], 1, "secondary", 2)>> :
        v \in {<<"e1", "p2">>, <<"e2", "p1">>}}

InitDangling ==
    /\ contacts \in DanglingStores
    /\ pc = [p \in Procs |-> "idle"]
    /\ req = [p \in Procs |-> NoRequest]
    /\ matched = [p \in Procs |-> <<>>]
    /\ idx = [p \in Procs |-> 0]
    /\ primaryMap = [p \in Procs |-> <<>>]
    /\ primaries = [p \in Procs |-> <<>>]
    /\ other = [p \in Procs |-> 0]
    /\ target = [p \in Procs |-> NoId]
    /\ response = [p \in Procs |-> NoResponse]
    /\ res = [p \in Procs |-> NoReply]
    /\ pre = [p \in Procs |-> <<>>]
    /\ log = [p \in Procs |-> <<>>]
    /\ first = NoCall
    /\ calls = 0

\* Sequential histories that start from a store with a dangling link.
SpecDangling == InitDangling /\ [][Next]_vars

\* Stores that a cold-start race has left: two calls identify(e1, null) both
\* found the table empty and both inserted a PRIMARY row, in one millisecond
\* or in two. In the larger stores the calls identify(null, p1) and
\* identify(e2, p1) have followed, one after the other, and have added a
\* third cluster of a PRIMARY and a SECONDARY.
RacedStores ==
    UNION {{<<Contact(1, "e1", NULL, NoId, "primary", 1),
              Contact(2, "e1", NULL, NoId, "primary", t)>>,
            <<Contact(1, "e1", NULL, NoId, "primary", 1),
              Contact(2, "e1", NULL, NoId, "primary", t),
              Contact(3, NULL, "p1", NoId, "primary", t + 1),
              Contact(4, "e2", "p1", 3, "secondary", t + 2)>>} : t \in {1, 2}}

InitRaced ==
    /\ contacts \in {<<>>} \cup RacedStores
    /\ pc = [p \in Procs |-> "idle"]
    /\ req = [p \in Procs |-> NoRequest]
    /\ matched = [p \in Procs |-> <<>>]
    /\ idx = [p \in Procs |-> 0]
    /\ primaryMap = [p \in Procs |-> <<>>]
    /\ primaries = [p \in Procs |-> <<>>]
    /\ other = [p \in Procs |-> 0]
    /\ target = [p \in Procs |-> NoId]
    /\ response = [p \in Procs |-> NoResponse]
    /\ res = [p \in Procs |-> NoReply]
    /\ pre = [p \in Procs |-> <<>>]
    /\ log = [p \in Procs |-> <<>>]
    /\ first = NoCall
    /\ calls = 0

\* Sequential histories that start from the empty store or from a store that
\* a cold-start race has left.
SpecRaced == InitRaced /\ [][Next]_vars

\* ------------------------------------------------------------------ claims
\* The root of row i of table cs: itself when it has no link.
RootOf(cs, i) == IF cs[i].linkedId = NoId THEN i ELSE cs[i].linkedId

Ids(cs) == 1..Len(cs)

\* No call is in progress.
Completed == pc[1] \in {"idle", "done"}

\* Some write of the call has the given kind.
Wrote(p, op) == \E i \in 1..Len(log[p]) : log[p][i].op = op

\* C1: in every state, between the writes of a call too, every SECONDARY row
\* has a linkedId that is the id of a stored PRIMARY row.
C1_NoChain ==
    \A i \in Ids(contacts) :
        contacts[i].linkPrecedence = "secondary" =>
            \E j \in Ids(contacts) :
                j = contacts[i].linkedId /\ contacts[j].linkPrecedence = "primary"

\* A merge stands between its reattach and its demote, and the root about to
\* be demoted had a secondary of its own.
C1_Witness ==
    /\ pc[1] = "demote"
    /\ \E i \in Ids(pre[1]) : pre[1][i].linkedId = primaries[1][other[1]].id

\* C2: after every completed call, a PRIMARY is not younger than any row linked
\* to it: its createdAt is smaller, or equal with a smaller id.
C2_RootSeniority ==
    Completed =>
        \A i, j \in Ids(contacts) :
            (contacts[i].linkPrecedence = "primary" /\ contacts[j].linkedId = i) =>
                \/ contacts[i].createdAt < contacts[j].createdAt
                \/ contacts[i].createdAt = contacts[j].createdAt /\ i <= j

\* C3: in every state a row is PRIMARY if and only if its linkedId is null.
C3_PrimaryIffNoLink ==
    \A i \in Ids(contacts) :
        (contacts[i].linkPrecedence = "primary") <=> (contacts[i].linkedId = NoId)

\* A root has just been demoted and the call has not finished.
C3_Witness ==
    /\ pc[1] = "check"
    /\ \E i \in Ids(pre[1]) :
          pre[1][i].linkPrecedence = "primary" /\ contacts[i].linkPrecedence = "secondary"

\* C4: after every completed call, two rows with the same non-null email or
\* the same non-null phoneNumber have the same root.
C4_LinkingRule ==
    Completed =>
        \A i, j \in Ids(contacts) :
            (\/ contacts[i].email # NULL /\ contacts[i].email = contacts[j].email
             \/ contacts[i].phoneNumber # NULL
                  /\ contacts[i].phoneNumber = contacts[j].phoneNumber) =>
                RootOf(contacts, i) = RootOf(contacts, j)

\* C5: a call repeated right away with the same valid body writes nothing and
\* returns the response of the first call.
C5_Idempotence ==
    (pc[1] = "done" /\ first.active) =>
        (log[1] = <<>> /\ response[1] = first.response)

\* A request field is supplied when it is not null.
Supplied(v) == v # NULL

\* The members of the cluster of root r in table cs.
Cluster(cs, r) == {i \in Ids(cs) : i = r \/ cs[i].linkedId = r}

\* The rows that table cs gained or changed with respect to table old.
Changed(old, cs) == {i \in Ids(cs) : i > Len(old) \/ cs[i] # old[i]}

\* C6: with PRIMARY A older than PRIMARY B, each alone in its cluster and each
\* with an email and a phone, identify(A.email, B.phone) demotes B under A,
\* leaves A as it was, creates no row and returns A, both emails, both phones
\* and B as the only secondary.
C6_CrossClusterMerge ==
    pc[1] = "done" =>
        \A a, b \in Ids(pre[1]) :
            (/\ a # b
             /\ pre[1][a].linkPrecedence = "primary"
             /\ pre[1][b].linkPrecedence = "primary"
             /\ pre[1][a].createdAt < pre[1][b].createdAt
             /\ Cluster(pre[1], a) = {a}
             /\ Cluster(pre[1], b) = {b}
             /\ pre[1][a].email # NULL /\ pre[1][a].phoneNumber # NULL
             /\ pre[1][b].email # NULL /\ pre[1][b].phoneNumber # NULL
             /\ req[1].email = pre[1][a].email
             /\ req[1].phoneNumber = pre[1][b].phoneNumber) =>
                /\ Len(contacts) = Len(pre[1])
                /\ Changed(pre[1], contacts) = {b}
                /\ contacts[b] = [pre[1][b] EXCEPT !.linkPrecedence = "secondary",
                                                   !.linkedId = a,
                                                   !.updatedAt = contacts[b].updatedAt]
                /\ response[1] =
                     [primaryContatctId   |-> a,
                      emails              |-> <<pre[1][a].email, pre[1][b].email>>,
                      phoneNumbers        |-> <<pre[1][a].phoneNumber, pre[1][b].phoneNumber>>,
                      secondaryContactIds |-> <<b>>]

\* The distinct roots that the candidates of the call resolve to, read off the
\* table as it was when the call started.
CandidateRoots(p) == {RootOf(pre[p], matched[p][i].id) : i \in 1..Len(matched[p])}

\* C7: when the candidates resolve to two or more roots, after the call one of
\* those roots is PRIMARY, none of them was created before it, and every other
\* root and every row that was linked to any of them is linked to it; when they
\* resolve to one root the call issues no reattach and no demote.
C7_MergeDecision ==
    (pc[1] = "done" /\ matched[1] # <<>>) =>
        LET roots == CandidateRoots(1)
        IN  /\ Cardinality(roots) >= 2 =>
                \E s \in roots :
                    /\ contacts[s].linkPrecedence = "primary"
                    /\ \A r \in roots : pre[1][s].createdAt <= pre[1][r].createdAt
                    /\ \A r \in roots \ {s} : contacts[r].linkPrecedence = "secondary"
                    /\ \A i \in Ids(pre[1]) :
                          (i \in roots \ {s} \/ pre[1][i].linkedId \in roots) =>
                              contacts[i].linkedId = s
            /\ Cardinality(roots) = 1 =>
                (~Wrote(1, "reattach") /\ ~Wrote(1, "demote"))

\* A call has merged three clusters: its candidates resolved to three roots,
\* two of them were demoted, one of these was created strictly later than
\* the survivor and had a secondary, which the call has moved to the survivor.
C7_Witness ==
    /\ pc[1] = "done"
    /\ Cardinality(CandidateRoots(1)) = 3
    /\ Cardinality({r \in CandidateRoots(1) : contacts[r].linkPrecedence = "secondary"}) = 2
    /\ \E r \in CandidateRoots(1) :
          /\ contacts[r].linkPrecedence = "secondary"
          /\ pre[1][r].createdAt > pre[1][contacts[r].linkedId].createdAt
          /\ \E i \in Ids(pre[1]) :
                pre[1][i].linkedId = r /\ contacts[i].linkedId = contacts[r].linkedId

\* The target cluster after the merge and before any row of this call is
\* inserted.
TargetMembers(p) == Cluster(contacts, target[p]) \cap Ids(pre[p])

\* The request carries a supplied email or a supplied phone that no member of
\* the target cluster has.
NewInformation(p) ==
    \/ /\ Supplied(req[p].email)
       /\ \A i \in TargetMembers(p) : contacts[i].email # req[p].email
    \/ /\ Supplied(req[p].phoneNumber)
       /\ \A i \in TargetMembers(p) : contacts[i].phoneNumber # req[p].phoneNumber

\* C8: a call with a candidate whose supplied email or supplied phone is on no
\* member of the target cluster creates exactly one row, a SECONDARY linked to
\* the target with the request's values, and the response has its id and its
\* new value.
C8_SecondaryCreation ==
    (pc[1] = "done" /\ matched[1] # <<>> /\ NewInformation(1)) =>
        LET n == Len(pre[1]) + 1
        IN  /\ Len(contacts) = n
            /\ contacts[n].linkPrecedence = "secondary"
            /\ contacts[n].linkedId = target[1]
            /\ contacts[n].email = req[1].email
            /\ contacts[n].phoneNumber = req[1].phoneNumber
            /\ \E k \in 1..Len(response[1].secondaryContactIds) :
                  response[1].secondaryContactIds[k] = n
            /\ \/ \E k \in 1..Len(response[1].emails) :
                     /\ response[1].emails[k] = req[1].email
                     /\ \A i \in TargetMembers(1) : contacts[i].email # req[1].email
               \/ \E k \in 1..Len(response[1].phoneNumbers) :
                     /\ response[1].phoneNumbers[k] = req[1].phoneNumber
                     /\ \A i \in TargetMembers(1) :
                           contacts[i].phoneNumber # req[1].phoneNumber

\* C9: a call with both fields given, against a table in which no row has
\* either value, creates exactly one row, a PRIMARY with no link, writes
\* nothing else and returns the new id, [email], [phone] and no secondary.
C9_ColdStart ==
    (/\ pc[1] = "done"
     /\ Supplied(req[1].email) /\ Supplied(req[1].phoneNumber)
     /\ \A i \in Ids(pre[1]) : /\ pre[1][i].email # req[1].email
                               /\ pre[1][i].phoneNumber # req[1].phoneNumber) =>
        LET n == Len(pre[1]) + 1
        IN  /\ Len(contacts) = n
            /\ Changed(pre[1], contacts) = {n}
            /\ contacts[n].linkPrecedence = "primary"
            /\ contacts[n].linkedId = NoId
            /\ log[1] = <<Write("create", n, NoId)>>
            /\ response[1] = [primaryContatctId   |-> n,
                              emails              |-> <<req[1].email>>,
                              phoneNumbers        |-> <<req[1].phoneNumber>>,
                              secondaryContactIds |-> <<>>]

\* C10: the call goes on to create a secondary exactly when a supplied email is
\* on no member of the target cluster or a supplied phone is on no member of
\* it, each field judged on its own.
C10_NewInformationCheck ==
    /\ pc[1] = "create_secondary" => NewInformation(1)
    /\ (pc[1] = "respond" /\ matched[1] # <<>> /\ ~Wrote(1, "create")) =>
          ~NewInformation(1)

\* C11: a call whose every supplied field is already on some member of one
\* cluster writes nothing, leaves the table as it was and returns the view of
\* that cluster as it stood before the call.
C11_ZeroWritesWhenKnown ==
    pc[1] = "done" =>
        \A r \in Ids(pre[1]) :
            (/\ pre[1][r].linkPrecedence = "primary"
             /\ Supplied(req[1].email) =>
                   \E i \in Cluster(pre[1], r) : pre[1][i].email = req[1].email
             /\ Supplied(req[1].phoneNumber) =>
                   \E i \in Cluster(pre[1], r) :
                       pre[1][i].phoneNumber = req[1].phoneNumber) =>
                /\ log[1] = <<>>
                /\ contacts = pre[1]
                /\ \E all \in findAllInCluster(pre[1], r) :
                      response[1] = _buildResponse(all, r)

\* The values of list s that are not null, each kept at its first occurrence.
RECURSIVE NonNullDistinct(_)
NonNullDistinct(s) ==
    IF s = <<>> THEN <<>>
    ELSE LET init == NonNullDistinct(SubSeq(s, 1, Len(s) - 1))
             x    == s[Len(s)]
         IN  IF x = NULL \/ \E k \in 1..Len(init) : init[k] = x
             THEN init ELSE Append(init, x)

\* C12: in every response secondaryContactIds lists each member of the cluster
\* other than the root once, in ascending createdAt; emails is the root's email
\* followed by theirs in that order, nulls dropped and each value kept at its
\* first occurrence; phoneNumbers is built the same way from the phones.
C12_ResponseAssembly ==
    pc[1] = "done" =>
        LET root == response[1].primaryContatctId
            sec  == response[1].secondaryContactIds
            ids  == <<root>> \o sec
        IN  /\ {sec[k] : k \in 1..Len(sec)} = Cluster(contacts, root) \ {root}
            /\ Len(sec) = Cardinality(Cluster(contacts, root) \ {root})
            /\ \A k, l \in 1..Len(sec) :
                  k < l => contacts[sec[k]].createdAt <= contacts[sec[l]].createdAt
            /\ response[1].emails =
                  NonNullDistinct([k \in 1..Len(ids) |-> contacts[ids[k]].email])
            /\ response[1].phoneNumbers =
                  NonNullDistinct([k \in 1..Len(ids) |-> contacts[ids[k]].phoneNumber])

\* The roots that the call has demoted so far.
Demoted(p) == {i \in Ids(pre[p]) : pre[p][i].linkPrecedence = "primary"
                                   /\ contacts[i].linkPrecedence = "secondary"}

\* C13: in every state of a call, between its writes too, no SECONDARY is
\* linked to a SECONDARY; every demote in the call's writes comes right after
\* the reattach of the same root to the same target; and once a root is
\* demoted every row that was linked to it is linked to the target.
C13_ReparentBeforeDemote ==
    /\ \A i \in Ids(contacts) :
          (contacts[i].linkPrecedence = "secondary" /\ contacts[i].linkedId \in Ids(contacts)) =>
              contacts[contacts[i].linkedId].linkPrecedence # "secondary"
    /\ \A k \in 1..Len(log[1]) :
          log[1][k].op = "demote" =>
              /\ k > 1
              /\ log[1][k - 1] = Write("reattach", log[1][k].id, log[1][k].to)
    /\ \A i \in Ids(pre[1]) :
          pre[1][i].linkedId \in Demoted(1) => contacts[i].linkedId = target[1]

\* A merge is over and the demoted root had a secondary, which is now linked
\* to the target.
C13_Witness ==
    /\ pc[1] \in {"check", "create_secondary", "respond", "done"}
    /\ \E i \in Ids(pre[1]) :
          /\ pre[1][i].linkedId \in Demoted(1)
          /\ contacts[i].linkedId = target[1]
          /\ log[1][2].op = "demote"

\* C20: when the roots of a call are sorted and several of them have the
\* oldest createdAt, the chosen target is the one of them with the lowest id.
C20_SeniorityTieBreak ==
    Len(primaries[1]) >= 2 =>
        \A k \in 1..Len(primaries[1]) :
            primaries[1][k].createdAt = primaries[1][1].createdAt =>
                target[1] <= primaries[1][k].id

\* C16: when a store operation of a call has failed, the table is what it was
\* when the call started.
C16_AtomicOnFailure ==
    pc[1] = "failed" => contacts = pre[1]

\* C17: a body with both fields null is answered 400 with the validator's
\* message, without a lookup, a write or a response of identify and with the
\* table as it was; identify only ever runs with a non-null field.
C17_InputContract ==
    /\ (pc[1] = "rejected" /\ req[1].email = NULL /\ req[1].phoneNumber = NULL) =>
          /\ res[1] = Reply(400, "At least one of email or phoneNumber must be provided")
          /\ contacts = pre[1]
          /\ log[1] = <<>> /\ matched[1] = <<>> /\ response[1] = NoResponse
    /\ pc[1] \notin {"idle", "rejected", "unparsed"} =>
          (req[1].email # NULL \/ req[1].phoneNumber # NULL)

\* A body with both fields null has been rejected over a table that has rows.
C17_Witness ==
    /\ pc[1] = "rejected"
    /\ req[1].email = NULL /\ req[1].phoneNumber = NULL
    /\ res[1].status = 400
    /\ contacts # <<>>

\* C18: a call whose store operation failed is answered 500 with
\* "Internal server error" and has no response of its own; a 200 is sent only
\* by a call that ran to its end; and after the failure the call does nothing
\* but end: no store operation, no retry.
C18_StoreFailurePropagation ==
    /\ [](pc[1] = "failed" =>
            (res[1] = Reply(500, "Internal server error") /\ response[1] = NoResponse))
    /\ [](res[1].status = 200 => pc[1] = "done")
    /\ [][pc[1] = "failed" => (contacts' = contacts /\ pc'[1] = "idle")]_vars

\* A store operation failed after the call had already written.
C18_Witness ==
    /\ pc[1] = "failed"
    /\ log[1] # <<>>
    /\ res[1].status = 500

\* C19: a body that is not valid JSON is answered 400 with
\* "Invalid request body", and identify does not run.
C19_MalformedBody ==
    pc[1] = "unparsed" =>
        /\ res[1] = Reply(400, "Invalid request body")
        /\ log[1] = <<>> /\ matched[1] = <<>> /\ response[1] = NoResponse

\* The call of handler p found no candidate and went to create a PRIMARY.
TookNoMatchBranch(p) ==
    \/ pc[p] = "create_primary"
    \/ log[p] # <<>> /\ log[p][1] = Write("create", log[p][1].id, NoId)

\* C14: two calls in flight at the same time that carry the same non-null
\* email or the same non-null phone never both take the no-match branch, and
\* no two PRIMARY rows have the same non-null email or the same non-null phone.
C14_ColdStartRace ==
    /\ \A p, q \in Procs :
          (/\ p # q
           /\ pc[p] # "idle" /\ pc[q] # "idle"
           /\ \/ req[p].email # NULL /\ req[p].email = req[q].email
              \/ req[p].phoneNumber # NULL /\ req[p].phoneNumber = req[q].phoneNumber) =>
              ~(TookNoMatchBranch(p) /\ TookNoMatchBranch(q))
    /\ \A i, j \in Ids(contacts) :
          (/\ i # j
           /\ contacts[i].linkPrecedence = "primary"
           /\ contacts[j].linkPrecedence = "primary") =>
              /\ contacts[i].email = NULL \/ contacts[i].email # contacts[j].email
              /\ contacts[i].phoneNumber = NULL
                   \/ contacts[i].phoneNumber # contacts[j].phoneNumber

\* C15: in every state of every interleaving a row is PRIMARY exactly when its
\* linkedId is null (I1), a row is SECONDARY exactly when its linkedId is the
\* id of a PRIMARY row (I2, and with it no SECONDARY linked to a SECONDARY),
\* and no row is older than the PRIMARY it is linked to (I4).
C15_MergeIsolation ==
    \A i \in Ids(contacts) :
        /\ (contacts[i].linkPrecedence = "primary") <=> (contacts[i].linkedId = NoId)
        /\ (contacts[i].linkPrecedence = "secondary") <=>
              (/\ contacts[i].linkedId \in Ids(contacts)
               /\ contacts[contacts[i].linkedId].linkPrecedence = "primary")
        /\ contacts[i].linkedId \in Ids(contacts) =>
              (/\ contacts[contacts[i].linkedId].linkPrecedence # "secondary"
               /\ contacts[contacts[i].linkedId].createdAt <= contacts[i].createdAt)

\* The positions in matched of the SECONDARY candidates whose PRIMARY is not a
\* candidate itself.
HiddenRootCandidates(p) ==
    {k \in 1..Len(matched[p]) :
        /\ matched[p][k].linkPrecedence = "secondary"
        /\ \A j \in 1..Len(matched[p]) : matched[p][j].id # matched[p][k].linkedId}

\* C21: no root is in primaryMap twice; and for a SECONDARY candidate whose
\* PRIMARY is not a candidate, once the loop has passed it that PRIMARY is in
\* primaryMap and the candidate is not, the candidate is never the target, is
\* never demoted and stays where it is linked, and a row the call creates is
\* linked to the target, which is a PRIMARY (that very PRIMARY when the call
\* has one root only).
C21_RootResolution ==
    /\ \A k, l \in 1..Len(primaryMap[1]) :
          k # l => primaryMap[1][k].id # primaryMap[1][l].id
    /\ \A k \in HiddenRootCandidates(1) :
          LET s == matched[1][k].id
              r == matched[1][k].linkedId
          IN  /\ idx[1] > k =>
                    /\ \E j \in 1..Len(primaryMap[1]) : primaryMap[1][j].id = r
                    /\ \A j \in 1..Len(primaryMap[1]) : primaryMap[1][j].id # s
              /\ target[1] # s
              /\ \A i \in 1..Len(log[1]) :
                    /\ log[1][i].op = "demote" => log[1][i].id # s
                    /\ log[1][i].op = "create" =>
                          /\ log[1][i].to = target[1]
                          /\ contacts[target[1]].linkPrecedence = "primary"
                          /\ Len(primaries[1]) = 1 => log[1][i].to = r
              /\ contacts[s].linkPrecedence = "secondary"
              /\ contacts[s].linkedId \in {r, target[1]}

\* A call whose only candidate was a SECONDARY has created a row, linked to
\* that candidate's PRIMARY.
C21_Witness ==
    /\ pc[1] = "done"
    /\ Len(matched[1]) = 1
    /\ HiddenRootCandidates(1) = {1}
    /\ Wrote(1, "create")
    /\ contacts[Len(contacts)].linkedId = matched[1][1].linkedId

\* C22: in the state in which a call returns, primaryContatctId is the id of a
\* stored PRIMARY row with no link, and secondaryContactIds holds, each once,
\* exactly the ids of the stored rows whose linkedId is that id.
C22_NoFabricatedIds ==
    pc[1] = "done" =>
        LET r   == response[1].primaryContatctId
            sec == response[1].secondaryContactIds
        IN  /\ r \in Ids(contacts)
            /\ contacts[r].linkPrecedence = "primary"
            /\ contacts[r].linkedId = NoId
            /\ {sec[k] : k \in 1..Len(sec)} = {i \in Ids(contacts) : contacts[i].linkedId = r}
            /\ \A k, l \in 1..Len(sec) : k # l => sec[k] # sec[l]
            /\ \A k \in 1..Len(sec) : sec[k] # r

\* A call returns a root with two rows linked to it.
C22_Witness ==
    /\ pc[1] = "done"
    /\ Len(response[1].secondaryContactIds) = 2
    /\ \A i \in Ids(contacts) :
          i # response[1].primaryContatctId =>
              contacts[i].linkedId = response[1].primaryContatctId

\* Row c covers the request of handler p: it has the request's email when one
\* was supplied and the request's phone when one was supplied.
Covers(c, p) ==
    /\ Supplied(req[p].email) => c.email = req[p].email
    /\ Supplied(req[p].phoneNumber) => c.phoneNumber = req[p].phoneNumber

\* C23, as stated: the call goes on to create a secondary exactly when no
\* single member of the target cluster covers the request.
C23_DocumentedCoveringRule ==
    /\ pc[1] = "create_secondary" =>
          \A i \in TargetMembers(1) : ~Covers(contacts[i], 1)
    /\ (pc[1] = "respond" /\ matched[1] # <<>> /\ ~Wrote(1, "create")) =>
          \E i \in TargetMembers(1) : Covers(contacts[i], 1)

\* C24, as stated: no step removes a row, and a step changes nothing of a
\* stored row but its linkPrecedence and its linkedId.
C24_LifecycleFrame ==
    [][/\ Len(contacts') >= Len(contacts)
       /\ \A i \in Ids(contacts) :
             contacts'[i] = [contacts[i] EXCEPT
                               !.linkPrecedence = contacts'[i].linkPrecedence,
                               !.linkedId = contacts'[i].linkedId]]_vars

\* C24, amended: no step removes a row, and a step changes nothing of a stored
\* row but its linkPrecedence, its linkedId and its updatedAt; id, email,
\* phoneNumber, createdAt and deletedAt stay.
C24_FrameWithUpdatedAt ==
    [][/\ Len(contacts') >= Len(contacts)
       /\ \A i \in Ids(contacts) :
             contacts'[i] = [contacts[i] EXCEPT
                               !.linkPrecedence = contacts'[i].linkPrecedence,
                               !.linkedId = contacts'[i].linkedId,
                               !.updatedAt = contacts'[i].updatedAt]]_vars

\* A call has demoted a root that had an email and a phone, and the row's
\* updatedAt is no longer what it was.
C24_Witness ==
    \E i \in Demoted(1) :
        /\ contacts[i].updatedAt # pre[1][i].updatedAt
        /\ contacts[i].email # NULL
        /\ contacts[i].phoneNumber # NULL

\* The rows of the table at the start of the call that have the supplied email
\* or the supplied phone of the request, the empty string being a value like
\* any other.
StoredWithSuppliedValue(p) ==
    {i \in Ids(pre[p]) :
        \/ Supplied(req[p].email) /\ pre[p][i].email = req[p].email
        \/ Supplied(req[p].phoneNumber) /\ pre[p][i].phoneNumber = req[p].phoneNumber}

\* C25: the candidates of a call are exactly the stored rows that have the
\* supplied email or the supplied phone, and the call takes the branch that
\* creates a PRIMARY only when there is no such row.
C25_CandidateLookup ==
    pc[1] \notin {"idle", "rejected", "unparsed", "failed"} =>
        /\ {matched[1][k].id : k \in 1..Len(matched[1])} = StoredWithSuppliedValue(1)
        /\ TookNoMatchBranch(1) => StoredWithSuppliedValue(1) = {}

\* Candidate c of handler p is a SECONDARY whose linkedId finds no row in the
\* table as it was when the call started.
Dangling(p, c) ==
    c.linkPrecedence = "secondary" /\ findById(pre[p], c.linkedId) = NoContact

\* The ids of the rows that the finders can retrieve.
Retrievable(cs) == {i \in Ids(cs) : cs[i].deletedAt = NullTime}

\* C26: a candidate whose link is dangling is itself put among the roots once
\* the loop has passed it, and is among the roots the merge decision sorts;
\* the target of such a call is a retrievable row, and the call ends with a
\* response for that target and status 200.
C26_DanglingLinkFallback ==
    \A k \in 1..Len(matched[1]) :
        Dangling(1, matched[1][k]) =>
            /\ idx[1] > k =>
                  \E j \in 1..Len(primaryMap[1]) : primaryMap[1][j].id = matched[1][k].id
            /\ idx[1] > Len(matched[1]) =>
                  /\ \E j \in 1..Len(primaries[1]) : primaries[1][j].id = matched[1][k].id
                  /\ target[1] \in Retrievable(contacts)
            /\ pc[1] = "done" =>
                  /\ response[1].primaryContatctId = target[1]
                  /\ res[1] = Reply(200, "")

\* A call with a dangling candidate and a second root has merged the two and
\* returned.
C26_Witness ==
    /\ pc[1] = "done"
    /\ \E k \in 1..Len(matched[1]) : Dangling(1, matched[1][k])
    /\ Len(primaries[1]) = 2
    /\ Wrote(1, "demote")

\* The states in which the table is looked at as a whole. Every value that the
\* table takes is its value in one of them: a write is followed by another
\* write of the merge (pc "reattach", "demote"), by the insert of STEP 5
\* (pc "create_secondary"), or by reads only until the handler is idle again;
\* and a history reaches the same tables whether or not one of its requests is
\* marked as the repetition of the request before it.
StoreAtRest ==
    /\ pc[1] \in {"idle", "reattach", "demote", "create_secondary"}
    /\ ~first.active

\* C27: for every stored PRIMARY r, findAllInCluster(r) holds r and the rows
\* linked to r, each once and no other row, with r first and the rows after it
\* in ascending (non-decreasing) createdAt order.
C27_ClusterQueryOrder ==
    \A r \in Ids(contacts) :
        StoreAtRest /\ contacts[r].linkPrecedence = "primary" =>
            \A all \in findAllInCluster(contacts, r) :
                /\ {all[k].id : k \in 1..Len(all)} =
                       {r} \cup {i \in Ids(contacts) : contacts[i].linkedId = r}
                /\ Len(all) = Cardinality({all[k].id : k \in 1..Len(all)})
                /\ \A k \in 1..Len(all) : all[k] = contacts[all[k].id]
                /\ all[1].id = r
                /\ \A k \in 2..(Len(all) - 1) : all[k].createdAt <= all[k + 1].createdAt

\* A PRIMARY with two rows linked to it, one of them inserted before it.
C27_Witness ==
    \E r \in Ids(contacts) :
        /\ contacts[r].linkPrecedence = "primary"
        /\ \E all \in findAllInCluster(contacts, r) : Len(all) = MaxContacts
        /\ \E i \in Ids(contacts) : i < r /\ contacts[i].linkedId = r

\* Row a with the linkedId and the updatedAt of row b.
WithLinkOf(a, b) == [a EXCEPT !.linkedId = b.linkedId, !.updatedAt = b.updatedAt]

\* C28 as stated: on every store and for every pair of ids, a second
\* reattachSecondaries(old, new) leaves the store of the first; with no row
\* linked to old the store is unchanged; no field but linkedId changes, and
\* no row whose linkedId is not old changes.
C28_ReparentIdempotentTotal ==
    \A old \in 1..MaxContacts, new \in 1..MaxContacts :
        \A t1 \in UpdateTimes(contacts) :
            LET once == reattachSecondaries(contacts, old, new, t1)
            IN  \A t2 \in UpdateTimes(once) :
                    LET twice == reattachSecondaries(once, old, new, t2)
                    IN  /\ twice = once
                        /\ (\A i \in Ids(contacts) : contacts[i].linkedId # old) =>
                               once = contacts
                        /\ Len(once) = Len(contacts)
                        /\ \A i \in Ids(contacts) :
                              /\ once[i] = [contacts[i] EXCEPT !.linkedId = once[i].linkedId]
                              /\ contacts[i].linkedId # old => once[i] = contacts[i]

\* C28, amended: the same, except that a row whose linkedId is rewritten gets
\* the time of the update as its updatedAt, and that the second application
\* equals the first in every field but updatedAt.
C28_ReparentUpToUpdatedAt ==
    StoreAtRest =>
        \A old \in 1..MaxContacts, new \in 1..MaxContacts, t1 \in UpdateTimes(contacts) :
            LET once == reattachSecondaries(contacts, old, new, t1)
            IN  /\ \A t2 \in UpdateTimes(once) :
                      LET twice == reattachSecondaries(once, old, new, t2)
                      IN  /\ Len(twice) = Len(once)
                          /\ \A i \in Ids(once) :
                                [twice[i] EXCEPT !.updatedAt = once[i].updatedAt] = once[i]
                /\ (\A i \in Ids(contacts) : contacts[i].linkedId # old) =>
                       once = contacts
                /\ Len(once) = Len(contacts)
                /\ \A i \in Ids(contacts) :
                      /\ once[i] = WithLinkOf(contacts[i], once[i])
                      /\ contacts[i].linkedId # old => once[i] = contacts[i]
                      /\ contacts[i].linkedId = old =>
                            once[i].linkedId = new /\ once[i].updatedAt = t1

\* The reattach of a merge has moved a row and stamped it with a later time,
\* and a reattach of the rows of the new root to that same root, applied twice
\* at different times, leaves another store than applied once.
C28_Witness ==
    /\ pc[1] = "demote"
    /\ \E i \in Ids(pre[1]) :
          /\ contacts[i].linkedId # pre[1][i].linkedId
          /\ contacts[i].updatedAt > pre[1][i].updatedAt
    /\ \E old \in 1..MaxContacts, t1 \in UpdateTimes(contacts) :
          LET once == reattachSecondaries(contacts, old, old, t1)
          IN  \E t2 \in UpdateTimes(once) :
                  reattachSecondaries(once, old, old, t2) # once

\* The row that handler p is about to demote, and the row it demotes it under.
DemotedNext(p) == contacts[primaries[p][other[p]].id]
NewPrimaryNext(p) == contacts[primaries[p][1].id]

\* C29 as stated: when identify issues demoteContact(id, newPrimaryId), the
\* row id is PRIMARY and no row is linked to it, and newPrimaryId is another
\* row, PRIMARY, with a smaller createdAt.
C29_DemoteTargetsRoots ==
    pc[1] = "demote" =>
        /\ DemotedNext(1).linkPrecedence = "primary"
        /\ \A i \in Ids(contacts) : contacts[i].linkedId # DemotedNext(1).id
        /\ NewPrimaryNext(1).id # DemotedNext(1).id
        /\ NewPrimaryNext(1).linkPrecedence = "primary"
        /\ NewPrimaryNext(1).createdAt < DemotedNext(1).createdAt

\* C29, amended: the same, with a createdAt that is not larger.
C29_DemoteUnderNotYounger ==
    pc[1] = "demote" =>
        /\ DemotedNext(1).linkPrecedence = "primary"
        /\ DemotedNext(1).linkedId = NoId
        /\ \A i \in Ids(contacts) : contacts[i].linkedId # DemotedNext(1).id
        /\ NewPrimaryNext(1).id # DemotedNext(1).id
        /\ NewPrimaryNext(1).linkPrecedence = "primary"
        /\ NewPrimaryNext(1).createdAt <= DemotedNext(1).createdAt

\* A demote is due for a root that had a secondary before the call and is
\* strictly younger than the root it goes under.
C29_Witness ==
    /\ pc[1] = "demote"
    /\ \E i \in Ids(pre[1]) : pre[1][i].linkedId = DemotedNext(1).id
    /\ NewPrimaryNext(1).createdAt < DemotedNext(1).createdAt

\* The reads of a call that needs each of them once: the lookup, one findById
\* hop, the cluster fetch of STEP 5 and the cluster fetch of the response.
ReadPath == <<"findByEmailOrPhone", "findById", "findAllInCluster", "findAllInCluster">>

\* The reads that the returned call of handler p made: the lookup, a findById
\* for every SECONDARY candidate, the cluster fetch of STEP 5 unless the call
\* took the no-match branch, and the cluster fetch of the response.
Reads(p) ==
    Len(<<"findByEmailOrPhone">>)
    + Cardinality({k \in 1..Len(matched[p]) : matched[p][k].linkPrecedence = "secondary"})
    + (IF TookNoMatchBranch(p) THEN 0 ELSE Len(<<"findAllInCluster">>))
    + Len(<<"findAllInCluster">>)

\* C30: a call that has returned made a number of store round trips that is
\* independent of how many candidates matched: its reads are within ReadPath,
\* however many rows the lookup returned.
C30_BoundedWork ==
    pc[1] = "done" => Reads(1) <= Len(ReadPath)

\* The rows of the table before the call of handler p, soft-deleted ones
\* included, that have the email or the phone of its request.
StoredMatches(p) ==
    {i \in Ids(pre[p]) :
        \/ Truthy(req[p].email) /\ pre[p][i].email = req[p].email
        \/ Truthy(req[p].phoneNumber) /\ pre[p][i].phoneNumber = req[p].phoneNumber}

\* C31: a row with a deletedAt is treated like any other row: when it has the
\* email or the phone of the request it is among the candidates of the
\* lookup, findById finds the row that a candidate is linked to, and when the
\* call has returned every row of the target's cluster is in the response.
C31_DeletedAtNotFiltered ==
    pc[1] \notin {"idle", "rejected", "unparsed", "failed"} =>
        /\ \A i \in StoredMatches(1) :
              \E k \in 1..Len(matched[1]) : matched[1][k].id = i
        /\ \A k \in 1..Len(matched[1]) :
              matched[1][k].linkedId \in Ids(pre[1]) =>
                  findById(pre[1], matched[1][k].linkedId) # NoContact
        /\ pc[1] = "done" =>
              \A i \in Ids(contacts) :
                  (i = target[1] \/ contacts[i].linkedId = target[1]) =>
                      \/ i = response[1].primaryContatctId
                      \/ \E k \in 1..Len(response[1].secondaryContactIds) :
                            response[1].secondaryContactIds[k] = i

\* The number of PRIMARY rows of a table.
PrimaryCount(cs) == Cardinality({i \in Ids(cs) : cs[i].linkPrecedence = "primary"})

\* C32: at every point of a call the table holds the rows it held when the
\* call started and at most one more; a new PRIMARY row exists only in a call
\* that took the no-match branch, any other new row is SECONDARY, and a call
\* that has demoted a root has not more PRIMARY rows than it started with.
C32_AtMostOneRecord ==
    pc[1] \notin {"idle", "rejected", "unparsed", "failed"} =>
        /\ Len(contacts) \in {Len(pre[1]), Len(pre[1]) + 1}
        /\ \A i \in Ids(contacts) \ Ids(pre[1]) :
              IF TookNoMatchBranch(1)
              THEN contacts[i].linkPrecedence = "primary"
              ELSE contacts[i].linkPrecedence = "secondary"
        /\ TookNoMatchBranch(1) => ~Wrote(1, "reattach") /\ ~Wrote(1, "demote")
        /\ Wrote(1, "demote") => PrimaryCount(contacts) < PrimaryCount(pre[1])

\* A call that had candidates has inserted one SECONDARY row and returned.
C32_Witness ==
    /\ pc[1] = "done"
    /\ matched[1] # <<>>
    /\ Len(contacts) = Len(pre[1]) + 1
    /\ contacts[Len(contacts)].linkPrecedence = "secondary"

\* C33: no step of identify turns a SECONDARY row into a PRIMARY row or sets
\* its linkedId to null.
C33_DemotionPermanent ==
    [][\A i \in Ids(contacts) :
          contacts[i].linkPrecedence = "secondary" =>
              /\ i \in Ids(contacts')
              /\ contacts'[i].linkPrecedence = "secondary"
              /\ contacts'[i].linkedId # NoId]_vars

\* A call has returned that wrote to a row which was SECONDARY before it: the
\* row has another parent and is still SECONDARY.
C33_Witness ==
    /\ pc[1] = "done"
    /\ \E i \in Ids(pre[1]) :
          /\ pre[1][i].linkPrecedence = "secondary"
          /\ contacts[i].linkedId # pre[1][i].linkedId
          /\ contacts[i].linkPrecedence = "secondary"

\* The roots of the candidates of handler p other than its target: the roots
\* that the call demotes.
StaleRoots(p) == IF target[p] = NoId THEN {} ELSE CandidateRoots(p) \ {target[p]}

\* C34: at every point of a call after its first write (the table is as it
\* was before that), a row that existed when the call started and whose root
\* then was no root of a candidate is as it was, so is a row whose root then
\* was the target, and a row that differs from what it was had a stale root
\* as its root (it is a stale root or was linked to one).
C34_FrameOfCall ==
    (pc[1] \notin {"idle", "rejected", "unparsed", "failed"} /\ log[1] # <<>>) =>
        \A i \in Ids(pre[1]) :
            /\ RootOf(pre[1], i) \notin CandidateRoots(1) => contacts[i] = pre[1][i]
            /\ (target[1] # NoId /\ RootOf(pre[1], i) = target[1]) => contacts[i] = pre[1][i]
            /\ contacts[i] # pre[1][i] => RootOf(pre[1], i) \in StaleRoots(1)

\* A call has merged two clusters and returned, and the table holds a row of
\* a third cluster, which no candidate belongs to.
C34_Witness ==
    /\ pc[1] = "done"
    /\ Wrote(1, "demote")
    /\ \E i \in Ids(pre[1]) : RootOf(pre[1], i) \notin CandidateRoots(1)

\* Value v is an element of sequence s.
InSeq(v, s) == \E k \in 1..Len(s) : s[k] = v

\* C35: when a call returns, a non-empty email of its request is in the
\* emails of the response and a non-empty phone of its request is in the
\* phoneNumbers of the response.
C35_ResponseCoversRequest ==
    pc[1] = "done" =>
        /\ Truthy(req[1].email) => InSeq(req[1].email, response[1].emails)
        /\ Truthy(req[1].phoneNumber) =>
              InSeq(req[1].phoneNumber, response[1].phoneNumbers)

\* A call with a non-empty email and a non-empty phone has returned without
\* a write, and no single row of the table has both values.
C35_Witness ==
    /\ pc[1] = "done"
    /\ Truthy(req[1].email) /\ Truthy(req[1].phoneNumber)
    /\ log[1] = <<>>
    /\ \A i \in Ids(contacts) :
          contacts[i].email # req[1].email \/ contacts[i].phoneNumber # req[1].phoneNumber

\* Rows i and j of table cs are in the same cluster: they have the same root.
SameCluster(cs, i, j) == RootOf(cs, i) = RootOf(cs, j)

\* C36: two rows that were in the same cluster when a call started are in the
\* same cluster when it has returned; call after call, rows that were once
\* together stay together.
C36_ClustersNeverSplit ==
    pc[1] = "done" =>
        \A i, j \in Ids(pre[1]) :
            SameCluster(pre[1], i, j) => SameCluster(contacts, i, j)

\* A call has returned that moved a cluster of two rows under another root.
C36_Witness ==
    /\ pc[1] = "done"
    /\ \E i, j \in Ids(pre[1]) :
          /\ i # j
          /\ SameCluster(pre[1], i, j)
          /\ RootOf(contacts, i) # RootOf(pre[1], i)
          /\ SameCluster(contacts, i, j)

====
